---- MODULE Spec2Model ----
(***************************************************************************)
(* A model of src/main.py: Transaction, Block (calculate_hash, mine_block) *)
(* and Blockchain (add_transaction, mine_pending_transactions,             *)
(* get_balance, is_chain_valid, sync_from_chain, export_chain).            *)
(*                                                                         *)
(* Representation of a SHA-256 hex digest.  A digest is the pair           *)
(* <<z, s>>: z is the number of leading '0' characters of the hex string   *)
(* and s stands for the rest of it.  SHA-256 is taken to be collision      *)
(* free, so s is identified with the hashed string; z is a fixed           *)
(* pseudo-random function of that string (ZeroRun of Checksum).  The       *)
(* one-character string "0" that the genesis block carries as              *)
(* previous_hash is <<1, <<>>>>: one leading zero and nothing else.        *)
(***************************************************************************)
EXTENDS Integers, Sequences, FiniteSets, TLC

\* ---------------------------------------------------------------- bounds
MaxChain == 3
MaxPending == 2
MaxDifficulty == 1
MaxTime == 2
MaxCand == 3

\* ------------------------------------------------------------- constants
\* self.mining_reward = 10.0
MiningReward == 10
\* the model digest has at most this many leading zeros (base-2 digits)
ZeroCap == 4

\* the reserved sender of reward transactions (the string "系统" of main.py)
SYSTEM == "SYSTEM"
Addresses == {"A", "B"}
Senders == {"A"}
Miners == {"M"}
Amounts == {50}
Times == 1 .. MaxTime
Difficulties == 0 .. MaxDifficulty

\* Python's None; as a timestamp it is falsy, like 0
None == 0
\* Block.hash before mining (None)
NoHash == <<>>
\* the string "0"
ZeroString == <<1, <<>>>>

VARIABLES chain, pending_transactions, difficulty, mining_reward, clock, last

\* shared: the transaction list of the newest block and the pending pool are one
\* and the same Python list object, so an append to the pool shows in the block
VARIABLE shared

\* history of the calls made on the node:
\*   accepted  the transactions handed to add_transaction and the rewards created,
\*             in order, recorded for as long as replaced is FALSE (the record
\*             is dropped when sync_from_chain replaces the chain)
\*   replaced  some sync_from_chain call has replaced the chain
\*   due       the reward transaction the latest successful mining round created
\*             (a sequence of length 0 or 1)
VARIABLES accepted, replaced, due

\* one call of Block.mine_block, a loop iteration at a time:
\*   blk              the block (self)
\*   mine_difficulty  the argument difficulty
\*   pc               "idle" (no call running), "loop" or "done" (returned)
\*   tried            the nonces whose hash the call has computed, in order
VARIABLES blk, mine_difficulty, pc, tried

node_vars == <<chain, pending_transactions, difficulty, mining_reward, clock, last,
               shared, accepted, replaced, due>>
mine_vars == <<blk, mine_difficulty, pc, tried>>

vars == <<chain, pending_transactions, difficulty, mining_reward, clock, last,
          shared, accepted, replaced, due, blk, mine_difficulty, pc, tried>>

\* ------------------------------------------------------------ Transaction
Transaction(sender, recipient, amount, now) ==
  [sender |-> sender, recipient |-> recipient, amount |-> amount, timestamp |-> now]

tx_to_dict(tx) ==
  [sender |-> tx.sender, recipient |-> tx.recipient, amount |-> tx.amount,
   timestamp |-> tx.timestamp]

\* ------------------------------------------------------------------ Block
\* Block.__init__: `timestamp or time.time()`, nonce 0, hash None
Block(index, transactions, previous_hash, timestamp, now) ==
  [index |-> index, transactions |-> transactions, previous_hash |-> previous_hash,
   timestamp |-> IF timestamp = None THEN now ELSE timestamp,
   nonce |-> 0, hash |-> NoHash]

\* json.dumps(..., sort_keys=True) of a transaction dict: the values in key order
\* amount, recipient, sender, timestamp
TxString(d) == <<d.amount, d.recipient, d.sender, d.timestamp>>

\* json.dumps(block_data, sort_keys=True): the values in key order
\* index, nonce, previous_hash, timestamp, transactions
BlockString(b) ==
  <<b.index, b.nonce, b.previous_hash, b.timestamp,
    [j \in 1 .. Len(b.transactions) |-> TxString(tx_to_dict(b.transactions[j]))]>>

AddressCode(a) == IF a = "A" THEN 1 ELSE IF a = "B" THEN 2 ELSE IF a = "M" THEN 3 ELSE 4

RECURSIVE SumTo(_, _)
SumTo(f, n) == IF n = 0 THEN 0 ELSE f[n] + SumTo(f, n - 1)

\* a number computed from every character of the hashed string; it decides how
\* many leading zeros the digest has
Checksum(s) ==
  LET txw == [j \in 1 .. Len(s[5]) |->
                s[5][j][1] + 2 * AddressCode(s[5][j][2])
                + 3 * AddressCode(s[5][j][3]) + 5 * s[5][j][4] + 7]
  IN (3 * s[1] + s[2] + 5 * s[3][1] + 7 * s[4] + SumTo(txw, Len(s[5]))) % 16

RECURSIVE ZeroRunFrom(_, _)
ZeroRunFrom(c, k) ==
  IF k < ZeroCap /\ c % 2 = 0 THEN ZeroRunFrom(c \div 2, k + 1) ELSE k

\* the number of leading zeros of the digest of a string with checksum c
ZeroRun(c) == ZeroRunFrom(c, 0)

\* hashlib.sha256(block_string.encode()).hexdigest()
Sha256Hex(s) == <<ZeroRun(Checksum(s)), s>>

\* hash[:d] == '0' * d, and hash.startswith('0' * d)
StartsWithZeros(h, d) == h[1] >= d

calculate_hash(b) == Sha256Hex(BlockString(b))

\* a loop that advances the nonce once more after the qualifying hash is recorded
RECURSIVE mine_block_nonce_after(_, _)
mine_block_nonce_after(b, d) ==
  LET h == calculate_hash(b)
  IN IF StartsWithZeros(h, d) THEN [b EXCEPT !.hash = h, !.nonce = @ + 1]
     ELSE mine_block_nonce_after([b EXCEPT !.nonce = @ + 1, !.hash = h], d)

\* Block.mine_block: the loop, from the block's current nonce
RECURSIVE mine_block(_, _)
mine_block(b, d) ==
  LET h == calculate_hash(b)
  IN IF StartsWithZeros(h, d) THEN [b EXCEPT !.hash = h]
     ELSE mine_block([b EXCEPT !.nonce = @ + 1, !.hash = h], d)

block_to_dict(b) ==
  [index |-> b.index,
   transactions |-> [j \in 1 .. Len(b.transactions) |-> tx_to_dict(b.transactions[j])],
   previous_hash |-> b.previous_hash, timestamp |-> b.timestamp,
   nonce |-> b.nonce, hash |-> b.hash]

\* ------------------------------------------------------------- Blockchain
\* create_genesis_block: Block(0, [], "0") mined at the chain's difficulty
create_genesis_block(d, now) == mine_block(Block(0, <<>>, ZeroString, None, now), d)

get_latest_block(c) == c[Len(c)]

\* a fold that credits the recipient only when the sender was not debited (elif)
RECURSIVE BalanceOverElif(_, _)
BalanceOverElif(txs, address) ==
  IF txs = <<>> THEN 0
  ELSE LET tx == txs[Len(txs)]
           rest == BalanceOverElif(SubSeq(txs, 1, Len(txs) - 1), address)
       IN IF tx.sender = address THEN rest - tx.amount
          ELSE IF tx.recipient = address THEN rest + tx.amount ELSE rest

\* the fold of get_balance over one list of transactions
RECURSIVE BalanceOver(_, _)
BalanceOver(txs, address) ==
  IF txs = <<>> THEN 0
  ELSE LET tx == txs[Len(txs)]
           rest == BalanceOver(SubSeq(txs, 1, Len(txs) - 1), address)
           afterDebit == IF tx.sender = address THEN rest - tx.amount ELSE rest
       IN IF tx.recipient = address THEN afterDebit + tx.amount ELSE afterDebit

RECURSIVE ChainBalance(_, _)
ChainBalance(c, address) ==
  IF c = <<>> THEN 0
  ELSE ChainBalance(SubSeq(c, 1, Len(c) - 1), address)
       + BalanceOver(c[Len(c)].transactions, address)

\* a get_balance that stops after the committed blocks
get_balance_committed(c, pending, address) == ChainBalance(c, address)

get_balance(c, pending, address) ==
  ChainBalance(c, address) + BalanceOver(pending, address)

is_chain_valid(c, d) ==
  \A i \in 2 .. Len(c) :
    /\ c[i].hash = calculate_hash(c[i])
    /\ c[i].previous_hash = c[i - 1].hash
    /\ StartsWithZeros(c[i].hash, d)

export_chain(c) == [i \in 1 .. Len(c) |-> block_to_dict(c[i])]

\* ------------------------------------------------------------------ state
Init ==
  /\ difficulty \in Difficulties
  /\ mining_reward = MiningReward
  /\ pending_transactions = <<>>
  /\ \E now \in Times :
       /\ chain = <<create_genesis_block(difficulty, now)>>
       /\ clock = now
  /\ last = [op |-> "init", ret |-> "None", arg |-> "None"]
  /\ shared = FALSE
  /\ accepted = <<>> /\ replaced = FALSE /\ due = <<>>
  /\ blk = Block(0, <<>>, ZeroString, None, 1)
  /\ mine_difficulty = 0 /\ pc = "idle" /\ tried = <<>>

\* blockchain.add_transaction(Transaction(sender, recipient, amount))
add_transaction ==
  \E sender \in Senders, recipient \in Addresses, amount \in Amounts,
     now \in clock .. MaxTime :
    LET transaction == Transaction(sender, recipient, amount, now)
    IN /\ Len(pending_transactions) < MaxPending
       /\ pending_transactions' = Append(pending_transactions, transaction)
       /\ chain' = IF shared
                   THEN [chain EXCEPT ![Len(chain)].transactions = Append(@, transaction)]
                   ELSE chain
       /\ clock' = now
       /\ last' = [op |-> "add_transaction", ret |-> "None", arg |-> "None"]
       /\ accepted' = IF replaced THEN accepted ELSE Append(accepted, transaction)
       /\ UNCHANGED <<difficulty, mining_reward, shared, replaced, due, mine_vars>>

\* a new block that takes the pending transactions in reverse order
NewBlockReversed(c, pending, d, now) ==
  mine_block(Block(Len(c), [j \in 1 .. Len(pending) |-> pending[Len(pending) + 1 - j]],
                   get_latest_block(c).hash, None, now), d)

\* a new block that takes the first pending transaction only
NewBlockFirstOnly(c, pending, d, now) ==
  mine_block(Block(Len(c), SubSeq(pending, 1, 1), get_latest_block(c).hash, None, now), d)

\* the block mine_pending_transactions builds and mines
NewBlock(c, pending, d, now) ==
  mine_block(Block(Len(c), pending, get_latest_block(c).hash, None, now), d)

\* a mining round without the empty-pool test
MinePendingUnguarded(c, pending, d, reward, miner_address, now, later) ==
  [ret |-> "True",
   chain |-> Append(c, NewBlock(c, pending, d, now)),
   pending |-> <<Transaction(SYSTEM, miner_address, reward, later)>>,
   shared |-> FALSE]

\* a mining round that appends the reward to the pool it has just mined
MinePendingKeepsPool(c, pending, d, reward, miner_address, now, later) ==
  IF pending = <<>> THEN [ret |-> "False", chain |-> c, pending |-> pending, shared |-> FALSE]
  ELSE [ret |-> "True",
        chain |-> Append(c, NewBlock(c, pending, d, now)),
        pending |-> Append(pending, Transaction(SYSTEM, miner_address, reward, later)),
        shared |-> FALSE]

\* a mining round that empties the pool list in place (clear, then append the
\* reward) where the code binds a new list
MinePendingInPlace(c, pending, d, reward, miner_address, now, later) ==
  IF pending = <<>> THEN [ret |-> "False", chain |-> c, pending |-> pending, shared |-> FALSE]
  ELSE [ret |-> "True",
        chain |-> Append(c, [NewBlock(c, pending, d, now) EXCEPT
                               !.transactions =
                                  <<Transaction(SYSTEM, miner_address, reward, later)>>]),
        pending |-> <<Transaction(SYSTEM, miner_address, reward, later)>>,
        shared |-> TRUE]

\* a mining round that leaves the pool empty
MinePendingNoReward(c, pending, d, reward, miner_address, now, later) ==
  IF pending = <<>> THEN [ret |-> "False", chain |-> c, pending |-> pending, shared |-> FALSE]
  ELSE [ret |-> "True",
        chain |-> Append(c, NewBlock(c, pending, d, now)),
        pending |-> <<>>,
        shared |-> FALSE]

\* what a call mine_pending_transactions(miner_address) does; now and later are the
\* values time.time() returns for the new block and for the reward transaction.
\* The new block is built on the pool's own list object (transactions=
\* self.pending_transactions); the assignment that follows binds
\* self.pending_transactions to a new list, so the two are not shared afterwards.
MinePending(c, pending, d, reward, miner_address, now, later) ==
  IF pending = <<>> THEN [ret |-> "False", chain |-> c, pending |-> pending, shared |-> FALSE]
  ELSE [ret |-> "True",
        chain |-> Append(c, NewBlock(c, pending, d, now)),
        pending |-> <<Transaction(SYSTEM, miner_address, reward, later)>>,
        shared |-> FALSE]

mine_pending_transactions ==
  \E miner_address \in Miners, now \in clock .. MaxTime :
    \E later \in now .. MaxTime :
      LET out == MinePending(chain, pending_transactions, difficulty, mining_reward,
                             miner_address, now, later)
      IN /\ Len(chain) < MaxChain
         /\ chain' = out.chain
         /\ pending_transactions' = out.pending
         /\ clock' = IF out.ret = "True" THEN later ELSE clock
         /\ last' = [op |-> "mine_pending_transactions", ret |-> out.ret,
                     arg |-> miner_address]
         /\ shared' = IF out.ret = "True" THEN out.shared ELSE shared
         /\ accepted' = IF out.ret = "True" /\ ~replaced
                        THEN Append(accepted, Transaction(SYSTEM, miner_address,
                                                          mining_reward, later))
                        ELSE accepted
         /\ due' = IF out.ret = "True"
                   THEN <<Transaction(SYSTEM, miner_address, mining_reward, later)>>
                   ELSE due
         /\ UNCHANGED <<difficulty, mining_reward, replaced, mine_vars>>

\* ----------------------------------------------------------- sync_from_chain
BlockKeys == {"index", "transactions", "previous_hash", "timestamp", "nonce", "hash"}
\* the keys of a transaction dict that sync_from_chain reads; 'timestamp' is not one
TxKeysRead == {"sender", "recipient", "amount"}

\* a subscript block_data[...] or tx[...] names a key the dict lacks
RaisesKeyError(external_chain) ==
  \E i \in 1 .. Len(external_chain) :
    \/ ~(BlockKeys \subseteq DOMAIN external_chain[i])
    \/ \E j \in 1 .. Len(external_chain[i].transactions) :
         ~(TxKeysRead \subseteq DOMAIN external_chain[i].transactions[j])

\* the number of time.time() calls made while block_data is rebuilt: one for every
\* Transaction(...) and one in Block(...) when block_data['timestamp'] is falsy
ReadsOf(block_data) ==
  Len(block_data.transactions) + (IF block_data.timestamp = None THEN 1 ELSE 0)

RECURSIVE ReadsBefore(_, _)
ReadsBefore(external_chain, i) ==
  IF i <= 1 THEN 0
  ELSE ReadsBefore(external_chain, i - 1) + ReadsOf(external_chain[i - 1])

NumReads(external_chain) == ReadsBefore(external_chain, Len(external_chain) + 1)

\* new_chain of sync_from_chain; readings[k] is what the k-th time.time() call returns
Rebuild(external_chain, readings) ==
  [i \in 1 .. Len(external_chain) |->
     LET block_data == external_chain[i]
         base == ReadsBefore(external_chain, i)
         n == Len(block_data.transactions)
         transactions ==
           [j \in 1 .. n |->
              Transaction(block_data.transactions[j].sender,
                          block_data.transactions[j].recipient,
                          block_data.transactions[j].amount, readings[base + j])]
         now == IF block_data.timestamp = None THEN readings[base + n + 1] ELSE None
         block == Block(block_data.index, transactions, block_data.previous_hash,
                        block_data.timestamp, now)
     IN [block EXCEPT !.nonce = block_data.nonce, !.hash = block_data.hash]]

\* an acceptance test that compares the lengths only
SyncAcceptsLonger(new_chain, c, d) == Len(new_chain) > Len(c)

\* an acceptance test that also takes a chain of equal length
SyncAcceptsNotShorter(new_chain, c, d) == is_chain_valid(new_chain, d) /\ Len(new_chain) >= Len(c)

\* an acceptance test that validates only
SyncAcceptsValid(new_chain, c, d) == is_chain_valid(new_chain, d)

\* the condition of line 235; the temporary Blockchain carries self.difficulty and
\* its own genesis block is dropped when its chain is overwritten with new_chain
SyncAccepts(new_chain, c, d) == is_chain_valid(new_chain, d) /\ Len(new_chain) > Len(c)

\* what a call sync_from_chain(external_chain) on a chain c does
SyncOutcome(c, d, external_chain, readings) ==
  IF RaisesKeyError(external_chain) THEN [ret |-> "KeyError", chain |-> c]
  ELSE LET new_chain == Rebuild(external_chain, readings)
       IN IF SyncAccepts(new_chain, c, d) THEN [ret |-> "True", chain |-> new_chain]
          ELSE [ret |-> "False", chain |-> c]

\* a sync that empties the pool when it replaces the chain
SyncPendingCleared(pending, ret) == IF ret = "True" THEN <<>> ELSE pending

\* the pending pool after sync_from_chain: no statement of it assigns or mutates
\* self.pending_transactions
SyncPending(pending, ret) == pending

\* the values successive time.time() calls can return, from a clock at lo
Readings(n, lo) ==
  {r \in [1 .. n -> lo .. MaxTime] : \A k \in 1 .. n - 1 : r[k] <= r[k + 1]}

\* ---- the external chains handed to sync_from_chain
\* the transaction a foreign node has recorded
ForeignTx == Transaction("A", "B", 50, 1)

Patterns == {"empty", "export", "genesis", "misindexed"}

\* the transactions of block i (from 1) of a foreign chain: "export" is the shape a
\* node exports (empty genesis, transactions in every later block), "empty" has no
\* transaction at all, "genesis" has one in its first block only
ForeignTxs(pattern, i) ==
  IF pattern = "export" /\ i > 1 THEN <<ForeignTx>>
  ELSE IF pattern = "genesis" /\ i = 1 THEN <<ForeignTx>>
  ELSE <<>>

\* the index field of block i (from 1) of a foreign chain: i - 1 as a node numbers
\* its blocks, except in the "misindexed" chains (no transactions), which count from 1
ForeignIndex(pattern, i) == IF pattern = "misindexed" THEN i ELSE i - 1

\* a chain of n blocks grown elsewhere, every block mined at difficulty dc
RECURSIVE ForeignChain(_, _, _)
ForeignChain(pattern, n, dc) ==
  IF n = 0 THEN <<>>
  ELSE LET c == ForeignChain(pattern, n - 1, dc)
           previous_hash == IF n = 1 THEN ZeroString ELSE c[n - 1].hash
       IN Append(c, mine_block(Block(ForeignIndex(pattern, n), ForeignTxs(pattern, n),
                                     previous_hash, 1, None), dc))

Restrict(f, keys) == [k \in keys |-> f[k]]

TamperOps == {"none", "amount", "link", "tx_timestamp", "timestamp", "no_hash", "no_tx_amount"}

\* an exported chain whose last block is altered after export; its stored hash is kept
Tamper(e, op) ==
  LET i == Len(e)
  IN IF op = "amount" THEN [e EXCEPT ![i].transactions[1].amount = @ + 1]
     ELSE IF op = "link" THEN [e EXCEPT ![i].previous_hash = ZeroString]
     ELSE IF op = "tx_timestamp" THEN [e EXCEPT ![i].transactions[1].timestamp = @ + 1]
     ELSE IF op = "timestamp" THEN [e EXCEPT ![i].timestamp = None]
     ELSE IF op = "no_hash" THEN [e EXCEPT ![i] = Restrict(@, BlockKeys \ {"hash"})]
     ELSE IF op = "no_tx_amount"
       THEN [e EXCEPT ![i].transactions[1] = Restrict(@, {"sender", "recipient", "timestamp"})]
     ELSE e

Applies(pattern, n, dc, op) ==
  /\ n = 0 => (pattern = "empty" /\ dc = MaxDifficulty /\ op = "none")
  /\ n = 1 => pattern # "export"
  /\ pattern = "misindexed" => (n >= 2 /\ op = "none")
  /\ dc < MaxDifficulty => op = "none"
  /\ op \in {"amount", "tx_timestamp", "no_tx_amount"} => ForeignTxs(pattern, n) # <<>>
  /\ op = "link" => n >= 2

\* the descriptions <<pattern, n, dc, op>> of the external chains tried
Candidates ==
  {x \in Patterns \X (0 .. MaxCand) \X Difficulties \X TamperOps :
     Applies(x[1], x[2], x[3], x[4])}

\* the external chain each description stands for
ExternalChain ==
  [x \in Candidates |-> Tamper(export_chain(ForeignChain(x[1], x[2], x[3])), x[4])] @@ <<>>

sync_from_chain ==
  \E x \in Candidates :
    LET external_chain == ExternalChain[x]
        n == IF RaisesKeyError(external_chain) THEN 0 ELSE NumReads(external_chain)
    IN \E readings \in Readings(n, clock) :
         LET out == SyncOutcome(chain, difficulty, external_chain, readings)
         IN /\ chain' = out.chain
            /\ clock' = IF n = 0 THEN clock ELSE readings[n]
            /\ pending_transactions' = SyncPending(pending_transactions, out.ret)
            /\ last' = [op |-> "sync_from_chain", ret |-> out.ret, arg |-> "None"]
            /\ shared' = IF out.ret = "True" THEN FALSE ELSE shared
            /\ replaced' = (replaced \/ out.ret = "True")
            /\ accepted' = IF out.ret = "True" THEN <<>> ELSE accepted
            /\ UNCHANGED <<difficulty, mining_reward, due, mine_vars>>

Next == add_transaction \/ mine_pending_transactions \/ sync_from_chain

Spec == Init /\ [][Next]_vars

\* ----------------------------------------------------------------- mine_block
\* the difficulties some nonce satisfies
MineDifficulties == 0 .. ZeroCap

\* the blocks mine_block is called on: as Block.__init__ leaves them, nonce 0
MineInputs ==
  {Block(index, transactions, ZeroString, None, now) :
     index \in 0 .. MaxChain - 1,
     transactions \in {<<>>, <<ForeignTx>>, <<Transaction(SYSTEM, "M", MiningReward, 1)>>},
     now \in Times}

\* a call block.mine_block(mine_difficulty) begins, on a node as constructed
MineInit ==
  /\ difficulty = 0
  /\ mining_reward = MiningReward
  /\ pending_transactions = <<>>
  /\ chain = <<create_genesis_block(0, 1)>>
  /\ clock = 1
  /\ last = [op |-> "init", ret |-> "None", arg |-> "None"]
  /\ shared = FALSE
  /\ accepted = <<>> /\ replaced = FALSE /\ due = <<>>
  /\ blk \in MineInputs
  /\ mine_difficulty \in MineDifficulties
  /\ pc = "loop" /\ tried = <<>>

\* an iteration that advances the nonce by two
MineStepByTwo ==
  /\ pc = "loop"
  /\ LET h == calculate_hash(blk)
     IN /\ tried' = Append(tried, blk.nonce)
        /\ IF StartsWithZeros(h, mine_difficulty)
           THEN blk' = [blk EXCEPT !.hash = h] /\ pc' = "done"
           ELSE blk' = [blk EXCEPT !.hash = h, !.nonce = @ + 2] /\ pc' = "loop"
  /\ UNCHANGED <<mine_difficulty, node_vars>>

\* one iteration of `while True`: compute the hash, return if it has the prefix,
\* else nonce += 1
MineStep ==
  /\ pc = "loop"
  /\ LET h == calculate_hash(blk)
     IN /\ tried' = Append(tried, blk.nonce)
        /\ IF StartsWithZeros(h, mine_difficulty)
           THEN blk' = [blk EXCEPT !.hash = h] /\ pc' = "done"
           ELSE blk' = [blk EXCEPT !.hash = h, !.nonce = @ + 1] /\ pc' = "loop"
  /\ UNCHANGED <<mine_difficulty, node_vars>>

\* the call runs on its own thread of control until it returns
SpecMine == MineInit /\ [][MineStep]_vars /\ WF_vars(MineStep)

\* ------------------------------------------------------------------ claims
\* the validity rules applied to the records of an external chain as they are
\* carried: links, leading zeros, and the stored hash against the hash of the
\* record's own index, transactions, previous_hash, timestamp and nonce
RecordValid(e, d) ==
  \A i \in 2 .. Len(e) :
    /\ e[i].previous_hash = e[i - 1].hash
    /\ StartsWithZeros(e[i].hash, d)
    /\ e[i].hash = Sha256Hex(<<e[i].index, e[i].nonce, e[i].previous_hash, e[i].timestamp,
                               [j \in 1 .. Len(e[i].transactions) |->
                                  TxString(e[i].transactions[j])]>>)

\* the time.time() values a call sync_from_chain(e) can see from the current clock
SyncReadings(e) == Readings(IF RaisesKeyError(e) THEN 0 ELSE NumReads(e), clock)

\* C1: every external chain that satisfies the validity rules and is one block
\* longer than the local chain is accepted and becomes the local chain; so is the
\* export of a same-difficulty node with at least one mined block, on a node that
\* holds its genesis block only.
C1_ForkChoiceAccepts ==
  \A x \in Candidates :
    LET e == ExternalChain[x]
    IN (/\ ~RaisesKeyError(e)
        /\ RecordValid(e, difficulty)
        /\ \/ Len(e) = Len(chain) + 1
           \/ /\ Len(chain) = 1
              /\ x[1] = "export" /\ x[3] = difficulty /\ x[4] = "none" /\ Len(e) >= 2)
       => \A r \in SyncReadings(e) :
            LET out == SyncOutcome(chain, difficulty, e, r)
            IN out.ret = "True" /\ export_chain(out.chain) = e

\* the state after add_transaction(A -> B, 50) and a successful
\* mine_pending_transactions(M) on a freshly constructed chain
C2_Scenario ==
  /\ last.op = "mine_pending_transactions" /\ last.ret = "True" /\ last.arg = "M"
  /\ Len(chain) = 2
  /\ chain[1].transactions = <<>>
  /\ Len(chain[2].transactions) = 1
  /\ chain[2].transactions[1].sender = "A"
  /\ chain[2].transactions[1].recipient = "B"
  /\ chain[2].transactions[1].amount = 50

\* C2 as stated: in the scenario get_balance(B) = 50, get_balance(A) = -50 and
\* get_balance(M) = 0.
C2_RewardNotCounted ==
  C2_Scenario =>
    /\ get_balance(chain, pending_transactions, "B") = 50
    /\ get_balance(chain, pending_transactions, "A") = -50
    /\ get_balance(chain, pending_transactions, "M") = 0

\* C2 as amended: in the scenario get_balance(B) = 50, get_balance(A) = -50 and
\* get_balance(M) = mining_reward, the pending reward being counted.
C2_RewardCounted ==
  C2_Scenario =>
    /\ get_balance(chain, pending_transactions, "B") = 50
    /\ get_balance(chain, pending_transactions, "A") = -50
    /\ get_balance(chain, pending_transactions, "M") = mining_reward
    /\ mining_reward = 10

\* C3: in every reachable state is_chain_valid() returns True: every block after
\* the first links to its predecessor, has `difficulty` leading zeros and stores
\* the hash of its own fields.
C3_ChainIntegrity ==
  /\ is_chain_valid(chain, difficulty)
  /\ \A i \in 2 .. Len(chain) :
       /\ chain[i].previous_hash = chain[i - 1].hash
       /\ chain[i].hash[1] >= difficulty
       /\ chain[i].hash = Sha256Hex(BlockString(chain[i]))

\* a chain taken over from sync_from_chain (its second block is empty, which no
\* mining round produces) and then grown by a mining round
C3_Witness ==
  /\ last.op = "mine_pending_transactions" /\ last.ret = "True"
  /\ Len(chain) = 3
  /\ chain[2].transactions = <<>>

\* C4: a call sync_from_chain with an external chain that is no longer than the
\* local chain, or breaks a validity rule, or lacks a field, leaves the local
\* block sequence as it was.
C4_RejectionKeepsChain ==
  \A x \in Candidates :
    LET e == ExternalChain[x]
    IN (\/ RaisesKeyError(e)
        \/ Len(e) <= Len(chain)
        \/ ~RecordValid(e, difficulty))
       => \A r \in SyncReadings(e) : SyncOutcome(chain, difficulty, e, r).chain = chain

\* the chain with the amount of transaction j of block i (both from 1) set to a
TamperAmount(c, i, j, a) == [c EXCEPT ![i].transactions[j].amount = a]

AlteredAmounts == {0, 10, 50, 51}

\* C5: changing the amount of any transaction of any block of the chain, without
\* mining again and with the stored hash untouched, makes is_chain_valid() False.
C5_TamperDetected ==
  \A i \in 1 .. Len(chain) :
    \A j \in 1 .. Len(chain[i].transactions) :
      \A a \in AlteredAmounts \ {chain[i].transactions[j].amount} :
        ~is_chain_valid(TamperAmount(chain, i, j, a), difficulty)

\* C6: a mining round on a non-empty pool returns True and appends exactly one
\* block, with index the old chain length, previous_hash the old last hash and the
\* whole pool in its order as transactions; the pool then holds the reward only.
C6_MiningRound ==
  [][(last'.op = "mine_pending_transactions" /\ pending_transactions # <<>>)
       => /\ last'.ret = "True"
          /\ Len(chain') = Len(chain) + 1
          /\ SubSeq(chain', 1, Len(chain)) = chain
          /\ chain'[Len(chain')].index = Len(chain)
          /\ chain'[Len(chain')].previous_hash = chain[Len(chain)].hash
          /\ chain'[Len(chain')].transactions = pending_transactions
          /\ Len(pending_transactions') = 1
          /\ pending_transactions'[1].sender = SYSTEM
          /\ pending_transactions'[1].recipient = last'.arg
          /\ pending_transactions'[1].amount = mining_reward]_vars

\* a round that has just committed a pool of two transactions
C6_Witness ==
  /\ last.op = "mine_pending_transactions" /\ last.ret = "True"
  /\ Len(chain[Len(chain)].transactions) = 2
  /\ pending_transactions = <<Transaction(SYSTEM, "M", 10, clock)>>

\* C7: a mining round on an empty pool returns False and changes neither the
\* block sequence nor the pool; no reward transaction appears.
C7_EmptyPoolNoOp ==
  [][(last'.op = "mine_pending_transactions" /\ pending_transactions = <<>>)
       => /\ last'.ret = "False"
          /\ chain' = chain
          /\ pending_transactions' = <<>>]_vars

C7_Witness ==
  /\ last.op = "mine_pending_transactions" /\ last.ret = "False"
  /\ pending_transactions = <<>>

\* the postcondition of mine_block(d) on a block m it returned
Mined(m, d) == StartsWithZeros(m.hash, d) /\ m.hash = calculate_hash(m)

\* C8: whenever mine_block(d) returns, the stored hash has d leading zeros and is
\* the hash of the block's final fields: for the genesis block of a new chain, for
\* the block of a mining round, and for every block of the chain mined afresh
\* (nonce 0, no hash) at every difficulty.
C8_MinePostcondition ==
  /\ last.op = "init" => Mined(chain[1], difficulty)
  /\ (last.op = "mine_pending_transactions" /\ last.ret = "True")
       => Mined(chain[Len(chain)], difficulty)
  /\ \A i \in 1 .. Len(chain), d \in Difficulties :
       Mined(mine_block([chain[i] EXCEPT !.nonce = 0, !.hash = NoHash], d), d)

\* a mining round whose nonce search did not stop at its first attempt
C8_Witness ==
  /\ last.op = "mine_pending_transactions" /\ last.ret = "True"
  /\ chain[Len(chain)].nonce > 0
  /\ difficulty > 0

\* the addresses that appear as sender or recipient, in a block or in the pool
Appearing ==
  UNION {{chain[i].transactions[j].sender, chain[i].transactions[j].recipient} :
           <<i, j>> \in {y \in (1 .. Len(chain)) \X (1 .. MaxPending + 1) :
                           y[2] <= Len(chain[y[1]].transactions)}}
  \cup {pending_transactions[j].sender : j \in 1 .. Len(pending_transactions)}
  \cup {pending_transactions[j].recipient : j \in 1 .. Len(pending_transactions)}

RECURSIVE TotalBalance(_)
TotalBalance(S) ==
  IF S = {} THEN 0
  ELSE LET a == CHOOSE y \in S : TRUE
       IN get_balance(chain, pending_transactions, a) + TotalBalance(S \ {a})

\* C9: the balances of all addresses that appear as sender or recipient sum to 0.
C9_BalanceConservation == TotalBalance(Appearing) = 0

\* committed transfers, one of them from an address to itself, have moved balances
C9_Witness ==
  /\ Len(chain) >= 2
  /\ \E j \in 1 .. Len(chain[2].transactions) :
       chain[2].transactions[j].sender = chain[2].transactions[j].recipient
  /\ get_balance(chain, pending_transactions, "A") < 0
  /\ get_balance(chain, pending_transactions, "B") > 0

\* C10: the chain holds at least one block in every reachable state.
C10_NeverEmpty == Len(chain) >= 1

\* a call sync_from_chain has just returned False
C10_Witness == last.op = "sync_from_chain" /\ last.ret = "False" /\ Len(chain) = 1

\* C11: in every reachable state the block at position i of the chain (from 0)
\* has index i.
C11_ContiguousIndices == \A i \in 1 .. Len(chain) : chain[i].index = i - 1

\* C12: in every reachable state the first block has index 0, previous_hash "0"
\* and no transactions, and no other block has index 0.
C12_GenesisShape ==
  /\ chain[1].index = 0
  /\ chain[1].previous_hash = ZeroString
  /\ chain[1].transactions = <<>>
  /\ \A i \in 2 .. Len(chain) : chain[i].index # 0

\* C13: a call sync_from_chain, accepted or rejected, leaves the pending pool,
\* the difficulty and the mining reward as they were; a rejected call leaves the
\* block sequence too.
C13_SyncFrame ==
  [][last'.op = "sync_from_chain"
       => /\ pending_transactions' = pending_transactions
          /\ difficulty' = difficulty
          /\ mining_reward' = mining_reward
          /\ last'.ret # "True" => chain' = chain]_vars

\* a sync has just replaced the chain of a node whose pool holds two transactions
C13_Witness ==
  /\ last.op = "sync_from_chain" /\ last.ret = "True"
  /\ Len(pending_transactions) = 2

\* the transactions of the blocks of c, in chain order
RECURSIVE BlockTxs(_)
BlockTxs(c) ==
  IF c = <<>> THEN <<>>
  ELSE BlockTxs(SubSeq(c, 1, Len(c) - 1)) \o c[Len(c)].transactions

\* every transaction a node holds: those of its blocks, then those of its pool
Held(c, pending) == BlockTxs(c) \o pending

\* C14: after any sequence of add_transaction and mine_pending_transactions calls
\* the transactions the node holds, in its blocks and in its pool, are exactly
\* the transactions accepted and the rewards created so far, each as many times as
\* it was accepted: none lost, none in the pool and in a block, none in two blocks.
C14_Ownership == ~replaced => Held(chain, pending_transactions) = accepted

\* two mining rounds and a later add_transaction: transactions in two mined
\* blocks and in the pool
C14_Witness ==
  /\ ~replaced
  /\ Len(chain) = 3
  /\ Len(pending_transactions) = 2
  /\ Len(accepted) >= 4

\* C15: add_transaction and mine_pending_transactions leave every block already
\* in the chain as it is, field for field; a transaction added after a mining
\* round does not enter the block that round appended.
C15_AppendedImmutable ==
  [][last'.op \in {"add_transaction", "mine_pending_transactions"}
       => /\ Len(chain') >= Len(chain)
          /\ \A i \in 1 .. Len(chain) : chain'[i] = chain[i]]_vars

\* a transaction has just been added behind the reward of the round that mined
\* the newest block
C15_Witness ==
  /\ last.op = "add_transaction"
  /\ ~replaced
  /\ Len(chain) >= 2
  /\ Len(pending_transactions) = 2
  /\ due = <<pending_transactions[1]>>
  /\ chain[Len(chain)].transactions # <<>>

\* C16: the reward a successful mining round creates is not in the block of that
\* round: the round leaves it alone in the pool.  It stays at the head of the
\* pool, transactions added later behind it, and the next successful
\* mine_pending_transactions commits it as the first transaction of its block.
C16_RewardSettlement ==
  /\ [](due # <<>>
          => /\ pending_transactions # <<>>
             /\ pending_transactions[1] = due[1]
             /\ \A j \in 2 .. Len(pending_transactions) :
                  pending_transactions[j].sender # SYSTEM)
  /\ [][(last'.op = "mine_pending_transactions" /\ last'.ret = "True")
          => /\ Len(chain') = Len(chain) + 1
             /\ chain'[Len(chain')].transactions = pending_transactions
             /\ BlockTxs(chain') = Held(chain, pending_transactions)
             /\ pending_transactions' = due'
             /\ due # <<>> => chain'[Len(chain')].transactions[1] = due[1]]_vars

\* a round has committed the reward of the round before it, ahead of a
\* transaction added between the two
C16_Witness ==
  /\ last.op = "mine_pending_transactions" /\ last.ret = "True"
  /\ Len(chain[Len(chain)].transactions) = 2
  /\ chain[Len(chain)].transactions[1].sender = SYSTEM
  /\ chain[Len(chain)].transactions[2].sender # SYSTEM

\* the hash of b with nonce n has d leading zeros
Qualifies(b, n, d) == StartsWithZeros(calculate_hash([b EXCEPT !.nonce = n]), d)

\* C17: mine_block(d) on a block with nonce 0 computes the hashes of nonces
\* 0, 1, 2, ... in this order, goes on only past a nonce that does not qualify,
\* and returns with nonce = the least n whose hash has d leading zeros, that hash
\* stored; with d = 0 it returns after the one attempt at nonce 0.  The call
\* returns (some nonce qualifies for every d the digest can satisfy).
C17_NonceSearch ==
  /\ [](/\ \A k \in 1 .. Len(tried) : tried[k] = k - 1
        /\ \A k \in 1 .. Len(tried) - 1 : ~Qualifies(blk, tried[k], mine_difficulty)
        /\ pc = "loop"
             => /\ blk.nonce = Len(tried)
                /\ \A k \in 1 .. Len(tried) : ~Qualifies(blk, tried[k], mine_difficulty)
        /\ pc = "done"
             => /\ blk.nonce = tried[Len(tried)]
                /\ Qualifies(blk, blk.nonce, mine_difficulty)
                /\ \A n \in 0 .. blk.nonce - 1 : ~Qualifies(blk, n, mine_difficulty)
                /\ blk.hash = calculate_hash(blk)
                /\ mine_difficulty = 0 => tried = <<0>>
                /\ blk = mine_block([blk EXCEPT !.nonce = 0, !.hash = NoHash],
                                    mine_difficulty))
  /\ <>(pc = "done")

\* a call that returned at its fourth attempt or later
C17_Witness == pc = "done" /\ Len(tried) >= 4 /\ blk.nonce = Len(tried) - 1

\* C18: after sync_from_chain(c) returns True, export_chain() equals c record for
\* record and field for field, the timestamps of the transactions included.
C18_WireFidelity ==
  \A x \in Candidates :
    LET e == ExternalChain[x]
    IN \A r \in SyncReadings(e) :
         LET out == SyncOutcome(chain, difficulty, e, r)
         IN out.ret = "True" => export_chain(out.chain) = e

\* C19: no step shortens the chain: add_transaction, mine_pending_transactions on
\* an empty pool and a sync that is not accepted keep its length, a successful
\* mine_pending_transactions adds exactly one block, an accepted sync_from_chain
\* at least one.
C19_LengthMonotone ==
  [][/\ Len(chain') >= Len(chain)
     /\ last'.op = "add_transaction" => Len(chain') = Len(chain)
     /\ (last'.op = "mine_pending_transactions" /\ last'.ret = "False")
          => Len(chain') = Len(chain)
     /\ (last'.op = "mine_pending_transactions" /\ last'.ret = "True")
          => Len(chain') = Len(chain) + 1
     /\ (last'.op = "sync_from_chain" /\ last'.ret # "True") => Len(chain') = Len(chain)
     /\ (last'.op = "sync_from_chain" /\ last'.ret = "True")
          => Len(chain') >= Len(chain) + 1]_vars

\* a chain that a successful mining round and then an accepted sync have grown
\* to three blocks
C19_Witness ==
  /\ last.op = "sync_from_chain" /\ last.ret = "True"
  /\ Len(chain) = 3
  /\ pending_transactions # <<>>
  /\ pending_transactions[1].sender = SYSTEM

\* C20: once a mining round has succeeded the pending pool is never empty again,
\* and every later mine_pending_transactions call returns True and appends a
\* block, also when no transaction was added since.
C20_PoolNeverEmptyAgain ==
  /\ [](due # <<>> => pending_transactions # <<>>)
  /\ [][(due # <<>> /\ last'.op = "mine_pending_transactions")
          => /\ last'.ret = "True"
             /\ Len(chain') = Len(chain) + 1]_vars

\* a round that mined a block holding nothing but the reward of the round before
C20_Witness ==
  /\ last.op = "mine_pending_transactions" /\ last.ret = "True"
  /\ Len(chain[Len(chain)].transactions) = 1
  /\ chain[Len(chain)].transactions[1].sender = SYSTEM
  /\ Len(pending_transactions) = 1
====
